---- MODULE Spec2Model ----
(***************************************************************************)
(* Model of the rank-based local quality score of                         *)
(* Code/quantitative_metrics/local_quality.py.                             *)
(*                                                                         *)
(* One call of local_quality(high_data, low_data, kt, ks) is followed      *)
(* statement by statement: shape unpacking, the two distance matrices,     *)
(* the two double-argsort rank matrices, ws, wt and the final score.       *)
(* Arrays are functions over 0..n-1 (numpy's 0-based indices).  A point    *)
(* cloud is a one-column array of integers, so the Euclidean distance of   *)
(* pdist is |a-b| exactly.                                                 *)
(*                                                                         *)
(* numpy's argsort is called with its default kind ("quicksort"), which    *)
(* numpy documents as not stable: the order it gives to equal keys is a    *)
(* function of the row in a given build, but which function is not         *)
(* specified.  The model lets the build choose any sorting permutation     *)
(* for each distinct row, the same one whenever the same row is sorted.    *)
(***************************************************************************)
EXTENDS Integers, FiniteSets, Sequences, TLC

\* Largest number of rows of an enumerated input point cloud.
MaxN == 3
\* Largest coordinate of an enumerated input point.
MaxCoord == 2

VARIABLES
  high_data, low_data, kt, ks,     \* the four arguments of local_quality
  n,                               \* line 80: rows of high_data
  high_distance, low_distance,     \* lines 82-83
  high_ranking, low_ranking,       \* lines 87-88
  ws_mat, wt_mat,                  \* lines 91-92
  local_quality_score,             \* line 94: per point <<numerator, denominator>>
  raised,                          \* the exception that ended the call, or "none"
  pc,                              \* the statement the call is about to run
  build,                           \* the argsort of this build, on the rows sorted so far
  second,                          \* the outcome of a second call in the same process
  patience, delta, counter, best_score, early_stop, stop_epoch,
  val_loss_min,                    \* the fields of an EarlyStopping object
  checkpoint,                      \* the epoch of the model saved on disk, 0 for none
  val_losses,                      \* the validation losses passed to the calls so far
  all_model_folder,                \* line 23: the entries of path_to_run
  todo,                            \* the entries the loop of line 35 has not reached
  model_i,                         \* the entry of the current iteration
  trust_hm, cont_hm, lcmc_hm, aggregate_hm,   \* lines 25-28
  ind_max,                         \* line 61, for the maps reported so far
  hm_raised,                       \* the exception that ended the script, or "none"
  hm_pc,                           \* the loop the script is in
  cr_N,                            \* the number of samples of the two rank matrices
  cr_i,                            \* the rows of the rank matrices counted so far
  Q                                \* the co-ranking matrix

\* The variables of one call of local_quality and of a second call after it.
lq_vars == <<high_data, low_data, kt, ks, n, high_distance, low_distance,
             high_ranking, low_ranking, ws_mat, wt_mat, local_quality_score,
             raised, pc, build, second>>

\* The variables of an EarlyStopping object and of its calls.
es_vars == <<patience, delta, counter, best_score, early_stop, stop_epoch,
             val_loss_min, checkpoint, val_losses>>

\* The variables of the script heatmap_optimization.py.
hm_vars == <<all_model_folder, todo, model_i, trust_hm, cont_hm, lcmc_hm,
             aggregate_hm, ind_max, hm_raised, hm_pc>>

\* The variables of the construction of a co-ranking matrix.
cr_vars == <<cr_N, cr_i, Q>>

vars == <<lq_vars, es_vars, hm_vars, cr_vars>>

----------------------------------------------------------------------------
\* Arrays

Idx(k) == 0..(k - 1)

\* Number of rows of an array (shape[0]).
Size(a) == Cardinality(DOMAIN a)

Abs(x) == IF x < 0 THEN -x ELSE x

\* A value that stands for "not assigned yet".
Unset == <<>>

\* No call of local_quality is made.
NoCall ==
  /\ high_data = Unset /\ low_data = Unset /\ kt = Unset /\ ks = Unset
  /\ n = Unset /\ high_distance = Unset /\ low_distance = Unset
  /\ high_ranking = Unset /\ low_ranking = Unset
  /\ ws_mat = Unset /\ wt_mat = Unset /\ local_quality_score = Unset
  /\ raised = Unset /\ pc = Unset /\ build = Unset /\ second = Unset

\* No EarlyStopping object exists.
NoStopper ==
  /\ patience = Unset /\ delta = Unset /\ counter = Unset
  /\ best_score = Unset /\ early_stop = Unset /\ stop_epoch = Unset
  /\ val_loss_min = Unset /\ checkpoint = Unset /\ val_losses = Unset

\* The script has not started.
NoGrids ==
  /\ all_model_folder = Unset /\ todo = Unset /\ model_i = Unset
  /\ trust_hm = Unset /\ cont_hm = Unset /\ lcmc_hm = Unset
  /\ aggregate_hm = Unset /\ ind_max = Unset /\ hm_raised = Unset
  /\ hm_pc = Unset

\* No co-ranking matrix is computed.
NoCoRanking == cr_N = Unset /\ cr_i = Unset /\ Q = Unset

\* scipy.spatial.distance.squareform(pdist(X)): the symmetric matrix of
\* Euclidean distances, zero on the diagonal; a single row gives [[0]].
squareform_pdist(X) ==
  [i \in DOMAIN X |-> [j \in DOMAIN X |-> Abs(X[i] - X[j])]]

\* All permutations of 0..k-1, as arrays: each permutation of 0..k-2 with
\* a value v put last and the values from v on moved up by one.
RECURSIVE PermsUpTo(_)
PermsUpTo(k) ==
  IF k = 0 THEN {<<>>}
  ELSE {[i \in Idx(k) |-> IF i = k - 1 THEN v
                          ELSE IF q[i] >= v THEN q[i] + 1 ELSE q[i]] :
          q \in PermsUpTo(k - 1), v \in Idx(k)}

\* The permutations of every row length that occurs, computed once.
PermTable == {<<k, PermsUpTo(k)>> : k \in 1..(IF MaxN > 6 THEN MaxN ELSE 6)}

IndexPerms(k) == (CHOOSE t \in PermTable : t[1] = k)[2]

\* The results ndarray.argsort may give for one row: every arrangement of
\* the indices that puts the keys in ascending order.
SortPerms(row) ==
  {p \in IndexPerms(Size(row)) :
     \A a, b \in DOMAIN row : a < b => row[p[a]] <= row[p[b]]}

\* The argsort of one build: a sorting permutation for every row given.
RECURSIVE ArgsortChoices(_)
ArgsortChoices(rows) ==
  IF rows = {} THEN {<<>>}
  ELSE UNION {{(r :> p) @@ f : p \in SortPerms(r), f \in ArgsortChoices(rows \ {r})} :
                r \in {CHOOSE x \in rows : TRUE}}

RowsOf(mat) == {mat[i] : i \in DOMAIN mat}

\* mat.argsort(axis=1) under the build's argsort.
argsort_axis1(mat, argsort) == [i \in DOMAIN mat |-> argsort[mat[i]]]

\* The second argsort sorts a permutation: its keys are distinct, so every
\* argsort gives the same result, the index of the key with k smaller keys
\* at position k.
argsort_distinct(mat) ==
  [i \in DOMAIN mat |-> [k \in DOMAIN mat[i] |->
     CHOOSE j \in DOMAIN mat[i] :
       Cardinality({a \in DOMAIN mat[i] : mat[i][a] < mat[i][j]}) = k]]

\* A faulty ranking: the rank of a column is the number of strictly
\* smaller distances in its row, so equal distances share a rank.
rank_by_smaller_count(mat, argsort) ==
  [i \in DOMAIN mat |-> [j \in DOMAIN mat[i] |->
     Cardinality({a \in DOMAIN mat[i] : mat[i][a] < mat[i][j]})]]

\* mat.argsort(axis=1).argsort(axis=1)
double_argsort(mat, argsort) ==
  LET order == argsort_axis1(mat, argsort) IN argsort_distinct(order)

----------------------------------------------------------------------------
\* numpy broadcasting of two square matrices

Broadcastable(a, b) == Size(a) = Size(b) \/ Size(a) = 1 \/ Size(b) = 1

BroadcastSize(a, b) == IF Size(a) >= Size(b) THEN Size(a) ELSE Size(b)

\* Element (i,j) of a matrix stretched to a larger shape.
At(a, i, j) == IF Size(a) = 1 THEN a[0][0] ELSE a[i][j]

\* The exception raised by mat_res[mask] = 0, where mat_res has the shape of
\* rho_ij and mask the broadcast shape of rho_ij and r_ij.
MaskRaises(rho_ij, r_ij) ==
  IF ~Broadcastable(rho_ij, r_ij) THEN "ValueError"
  ELSE IF BroadcastSize(rho_ij, r_ij) # Size(rho_ij) THEN "IndexError"
  ELSE "none"

\* A faulty wt: a rank error equal to kt is not tolerated.
wt_strict(rho_ij, r_ij, t) ==
  [i \in DOMAIN rho_ij |-> [j \in DOMAIN rho_ij |->
     IF Abs(At(rho_ij, i, j) - At(r_ij, i, j)) >= t THEN 0 ELSE 1]]

\* A faulty wt: the comparison is turned round, a rank error below kt is
\* not tolerated.
wt_inverted(rho_ij, r_ij, t) ==
  [i \in DOMAIN rho_ij |-> [j \in DOMAIN rho_ij |->
     IF Abs(At(rho_ij, i, j) - At(r_ij, i, j)) < t THEN 0 ELSE 1]]

\* wt: 1 everywhere, 0 where the rank error exceeds kt.
wt(rho_ij, r_ij, t) ==
  [i \in DOMAIN rho_ij |-> [j \in DOMAIN rho_ij |->
     IF Abs(At(rho_ij, i, j) - At(r_ij, i, j)) > t THEN 0 ELSE 1]]

\* A faulty ws: a rank equal to ks counts as beyond the neighbourhood.
ws_strict(rho_ij, r_ij, s) ==
  [i \in DOMAIN rho_ij |-> [j \in DOMAIN rho_ij |->
     IF At(rho_ij, i, j) >= s /\ At(r_ij, i, j) >= s THEN 0 ELSE 1]]

\* ws: 1 everywhere, 0 where both ranks exceed ks.
ws(rho_ij, r_ij, s) ==
  [i \in DOMAIN rho_ij |-> [j \in DOMAIN rho_ij |->
     IF At(rho_ij, i, j) > s /\ At(r_ij, i, j) > s THEN 0 ELSE 1]]

\* Sum of f over the index set S.
RECURSIVE SumOver(_, _)
SumOver(f, S) ==
  IF S = {} THEN 0
  ELSE LET x == CHOOSE y \in S : TRUE IN f[x] + SumOver(f, S \ {x})

\* A faulty product: the two weight matrices are added.
Added(a, b) == [i \in DOMAIN a |-> [j \in DOMAIN a |-> a[i][j] + b[i][j]]]

\* ws_mat*wt_mat
Product(a, b) == [i \in DOMAIN a |-> [j \in DOMAIN a |-> a[i][j] * b[i][j]]]

\* np.sum(mat, axis=1)
sum_axis1(mat) == [i \in DOMAIN mat |-> SumOver(mat[i], DOMAIN mat)]

\* A faulty column sum: the axis is 1 again.
sum_axis0_as_axis1(mat) == [j \in DOMAIN mat |-> SumOver(mat[j], DOMAIN mat)]

\* np.sum(mat, axis=0)
sum_axis0(mat) ==
  [j \in DOMAIN mat |-> SumOver([i \in DOMAIN mat |-> mat[i][j]], DOMAIN mat)]

\* A faulty score: the row sums are counted twice, the column sums never.
score_vector_rows_twice(wsm, wtm, s, rows) ==
  [i \in DOMAIN wsm |->
     <<2 * SumOver([j \in DOMAIN wsm |-> wsm[i][j] * wtm[i][j]], DOMAIN wsm),
       2 * s * rows>>]

\* 1./(2*ks*n) * (row sums + column sums), kept as an exact fraction.
score_vector(wsm, wtm, s, rows) ==
  LET both == Product(wsm, wtm)
  IN  [i \in DOMAIN both |->
         <<sum_axis1(both)[i] + sum_axis0(both)[i], 2 * s * rows>>]

----------------------------------------------------------------------------
\* Inputs

Clouds == UNION {[Idx(k) -> 0..MaxCoord] : k \in 1..MaxN}

Params == (-1)..MaxN

\* The concrete scenario of the specification: six evenly spaced points.
EvenSix == [i \in Idx(6) |-> i]

InitRest ==
  /\ n = 0
  /\ high_distance = Unset /\ low_distance = Unset
  /\ high_ranking = Unset /\ low_ranking = Unset
  /\ ws_mat = Unset /\ wt_mat = Unset
  /\ local_quality_score = Unset
  /\ raised = "none"
  /\ pc = "call"
  /\ build = Unset
  /\ second = Unset
  /\ NoStopper /\ NoGrids /\ NoCoRanking

Init ==
  /\ \/ /\ high_data = EvenSix
        /\ low_data = EvenSix
        /\ kt = 1
        /\ ks = 3
     \/ /\ high_data \in Clouds
        /\ low_data \in Clouds
        /\ kt \in Params
        /\ ks \in Params
  /\ InitRest

----------------------------------------------------------------------------
\* local_quality(high_data, low_data, kt, ks)

\* The exception that ends the call, "none" when it returns: the masks of
\* ws (line 91) and wt (line 92) raise on shapes that do not fit, and
\* 1./(2*ks*n) (line 94) divides a float by a Python int.
Raises(rho_ij, r_ij, s, rows) ==
  IF MaskRaises(rho_ij, r_ij) # "none" THEN MaskRaises(rho_ij, r_ij)
  ELSE IF 2 * s * rows = 0 THEN "ZeroDivisionError"
  ELSE "none"

\* lines 80-88, the same in a call that returns and in one that raises
RankMatrices(argsort) ==
  /\ n' = Size(high_data)
  /\ high_distance' = squareform_pdist(high_data)
  /\ low_distance' = squareform_pdist(low_data)
  /\ high_ranking' = double_argsort(high_distance', argsort)
  /\ low_ranking' = double_argsort(low_distance', argsort)
  /\ build' = argsort

\* The rows the build's argsort is applied to in this call.
SortedRows == RowsOf(squareform_pdist(high_data)) \cup RowsOf(squareform_pdist(low_data))

\* A call that runs to line 96 and returns the score vector.
local_quality ==
  /\ pc = "call"
  /\ \E argsort \in ArgsortChoices(SortedRows) : RankMatrices(argsort)
  /\ Raises(high_ranking', low_ranking', ks, n') = "none"
  /\ ws_mat' = ws(high_ranking', low_ranking', ks)
  /\ wt_mat' = wt(high_ranking', low_ranking', kt)
  /\ local_quality_score' = score_vector(ws_mat', wt_mat', ks, n')
  /\ pc' = "returned"
  /\ UNCHANGED <<high_data, low_data, kt, ks, raised, second>>
  /\ UNCHANGED <<es_vars, hm_vars, cr_vars>>

\* A call that an exception ends: nothing is returned.
local_quality_raises ==
  /\ pc = "call"
  /\ \E argsort \in ArgsortChoices(SortedRows) : RankMatrices(argsort)
  /\ Raises(high_ranking', low_ranking', ks, n') # "none"
  /\ raised' = Raises(high_ranking', low_ranking', ks, n')
  /\ IF MaskRaises(high_ranking', low_ranking') = "none"
       THEN /\ ws_mat' = ws(high_ranking', low_ranking', ks)
            /\ wt_mat' = wt(high_ranking', low_ranking', kt)
       ELSE UNCHANGED <<ws_mat, wt_mat>>
  /\ pc' = "raised"
  /\ UNCHANGED <<high_data, low_data, kt, ks, local_quality_score, second>>
  /\ UNCHANGED <<es_vars, hm_vars, cr_vars>>

Next == local_quality \/ local_quality_raises

Spec == Init /\ [][Next]_vars

----------------------------------------------------------------------------
\* Two calls of local_quality in one process

\* Largest kt and ks of a call that is followed by a second call.
MaxParam == 2

ParamsTwice == 0..MaxParam

InitTwice ==
  /\ high_data \in Clouds
  /\ low_data \in Clouds
  /\ kt \in ParamsTwice
  /\ ks \in ParamsTwice
  /\ InitRest

\* What lines 80-96 compute from the arguments (h, l, t, s) under the
\* build's argsort: the two rank matrices, the exception that ends the call
\* ("none" when it returns) and the returned score vector.
Outcome(h, l, t, s, argsort) ==
  LET rho == double_argsort(squareform_pdist(h), argsort)
      r == double_argsort(squareform_pdist(l), argsort)
      exc == Raises(rho, r, s, Size(h))
  IN  [high_data |-> h, low_data |-> l, kt |-> t, ks |-> s,
       high_ranking |-> rho, low_ranking |-> r, raised |-> exc,
       local_quality_score |->
         IF exc = "none" THEN score_vector(ws(rho, r, s), wt(rho, r, t), s, Size(h))
         ELSE Unset]

\* A faulty sort: its order of equal keys changes from call to call.
SortsAnew(argsort) == TRUE

\* The process sorts with the argsort it sorted with before: a row that
\* was sorted in the first call is put in the same order again.
SortsAsBefore(argsort) ==
  \A row \in DOMAIN build \cap DOMAIN argsort : argsort[row] = build[row]

\* A second call after the first one ended, on the arguments as the first
\* call left them: the same arguments again, or the two point clouds in
\* the other order.  The first outcome stays in the variables of the call.
local_quality_again ==
  /\ pc \in {"returned", "raised"}
  /\ \E swap \in BOOLEAN :
       \E argsort \in ArgsortChoices(SortedRows) :
         /\ SortsAsBefore(argsort)
         /\ second' = IF swap THEN Outcome(low_data, high_data, kt, ks, argsort)
                      ELSE Outcome(high_data, low_data, kt, ks, argsort)
  /\ pc' = "again"
  /\ UNCHANGED <<high_data, low_data, kt, ks, n, high_distance, low_distance,
                 high_ranking, low_ranking, ws_mat, wt_mat,
                 local_quality_score, raised, build>>
  /\ UNCHANGED <<es_vars, hm_vars, cr_vars>>

\* A second call after the first one ended, on the same two point clouds
\* and the same ks with another kt.
local_quality_other_kt ==
  /\ pc \in {"returned", "raised"}
  /\ \E t \in ParamsTwice \ {kt} :
       \E argsort \in ArgsortChoices(SortedRows) :
         /\ SortsAsBefore(argsort)
         /\ second' = Outcome(high_data, low_data, t, ks, argsort)
  /\ pc' = "again"
  /\ UNCHANGED <<high_data, low_data, kt, ks, n, high_distance, low_distance,
                 high_ranking, low_ranking, ws_mat, wt_mat,
                 local_quality_score, raised, build>>
  /\ UNCHANGED <<es_vars, hm_vars, cr_vars>>

NextTwice ==
  local_quality \/ local_quality_raises \/ local_quality_again
    \/ local_quality_other_kt

SpecTwice == InitTwice /\ [][NextTwice]_vars

----------------------------------------------------------------------------
\* EarlyStopping of Code/util/helpers.py

\* Largest patience of an enumerated EarlyStopping object.
MaxPatience == 2
\* Largest delta of an enumerated EarlyStopping object.
MaxDelta == 1
\* Largest validation loss passed to a call.
MaxLoss == 2
\* Largest number of calls of one EarlyStopping object (one per epoch).
MaxCalls == 5

\* best_score is None before the first call and a number after it: an
\* array of no or of one number.
None == <<>>
\* np.Inf, in the place of a validation loss: above every loss.
Inf == MaxLoss + 1

\* EarlyStopping.__init__(patience, verbose, delta, path)
EarlyStopping_init ==
  /\ patience \in 1..MaxPatience
  /\ delta \in 0..MaxDelta
  /\ counter = 0
  /\ best_score = None
  /\ early_stop = FALSE
  /\ stop_epoch = 0
  /\ val_loss_min = Inf
  /\ checkpoint = 0
  /\ val_losses = <<>>

\* A faulty save_model: the loss of the saved model is not recorded.
save_model_without_loss(val_loss, epochs) ==
  /\ stop_epoch' = epochs
  /\ checkpoint' = epochs
  /\ UNCHANGED val_loss_min

\* EarlyStopping.save_model(val_loss, VAE, MLP): the stop epoch, the model
\* files written by save_brute (known by the epoch of the saved model) and
\* the loss of the saved model.
save_model(val_loss, epochs) ==
  /\ stop_epoch' = epochs
  /\ checkpoint' = epochs
  /\ val_loss_min' = val_loss

\* The test of the elif branch: the score does not improve on the best one.
fails_to_improve(score) == score < best_score[1] + delta

\* A faulty patience test: one more failing call is waited for.
patience_exceeded(count) == count > patience

\* The test that sets early_stop.
patience_reached(count) == count >= patience

\* EarlyStopping.__call__(val_loss, VAE, MLP), called once per epoch with
\* VAE.epochs the number of the epoch.
EarlyStopping_call ==
  /\ Len(val_losses) < MaxCalls
  /\ \E val_loss \in 0..MaxLoss :
       LET score == -val_loss
           epochs == Len(val_losses) + 1
       IN  /\ val_losses' = Append(val_losses, val_loss)
           /\ IF best_score = None
                THEN /\ best_score' = <<score>>
                     /\ save_model(val_loss, epochs)
                     /\ UNCHANGED <<counter, early_stop>>
                ELSE IF fails_to_improve(score)
                THEN /\ counter' = counter + 1
                     /\ early_stop' = IF patience_reached(counter') THEN TRUE
                                      ELSE early_stop
                     /\ UNCHANGED <<best_score, stop_epoch, checkpoint, val_loss_min>>
                ELSE /\ best_score' = <<score>>
                     /\ save_model(val_loss, epochs)
                     /\ counter' = 0
                     /\ UNCHANGED early_stop
  /\ UNCHANGED <<patience, delta>>
  /\ UNCHANGED <<lq_vars, hm_vars, cr_vars>>

InitStopping == EarlyStopping_init /\ NoCall /\ NoGrids /\ NoCoRanking

NextStopping == EarlyStopping_call

SpecStopping == InitStopping /\ [][NextStopping]_vars

----------------------------------------------------------------------------
\* The grid aggregation of heatmap_optimization.py

\* Side of the four grids, np.zeros((6,6)).
GridSide == 6
\* Largest number of entries of the enumerated run directory.
MaxFolders == 2
\* Largest AUC value of an enumerated unsupervised_score.csv.
MaxAUC == 2

alpha_list == [i \in Idx(GridSide) |-> <<0, 5, 20, 100, 500, 1000>>[i + 1]]
beta_list == [i \in Idx(GridSide) |-> <<0, 1, 5, 20, 100, 500>>[i + 1]]

\* np.zeros((6,6))
zeros == [r \in Idx(GridSide) |-> [c \in Idx(GridSide) |-> 0]]

\* A faulty np.where: the indices that hold a value up to x.
where_upto(list, x) == {i \in DOMAIN list : list[i] <= x}

\* np.where(list == x)[0]: the indices that hold x, none if x is absent.
where(list, x) == {i \in DOMAIN list : list[i] = x}

\* A faulty write: hm[col, row] = value.
assigned_transposed(hm, row, col, value) ==
  [r \in DOMAIN hm |-> [c \in DOMAIN hm[r] |->
     IF r \in col /\ c \in row THEN value ELSE hm[r][c]]]

\* hm[row, col] = value for two index arrays of at most one element.
assigned(hm, row, col, value) ==
  [r \in DOMAIN hm |-> [c \in DOMAIN hm[r] |->
     IF r \in row /\ c \in col THEN value ELSE hm[r][c]]]

\* A faulty np.argmax: the last maximal cell in row-major order.
argmax_last(map) ==
  CHOOSE k \in Idx(GridSide * GridSide) :
    /\ \A q \in Idx(GridSide * GridSide) :
         map[q \div GridSide][q % GridSide] <= map[k \div GridSide][k % GridSide]
    /\ \A q \in (k + 1)..(GridSide * GridSide - 1) :
         map[q \div GridSide][q % GridSide] < map[k \div GridSide][k % GridSide]

\* np.argmax(map): the index, in the flattened row-major array, of the
\* first cell that holds the maximum.
argmax(map) ==
  CHOOSE k \in Idx(GridSide * GridSide) :
    /\ \A q \in Idx(GridSide * GridSide) :
         map[q \div GridSide][q % GridSide] <= map[k \div GridSide][k % GridSide]
    /\ \A q \in 0..(k - 1) :
         map[q \div GridSide][q % GridSide] < map[k \div GridSide][k % GridSide]

\* np.unravel_index(k, (6,6))
unravel_index(k) == <<k \div GridSide, k % GridSide>>

\* The names of the entries of path_to_run: text in front, then
\* alpha_<alpha>_beta_<beta>.  Two names can carry the same pair.
Prefixes == {"run", "rerun"}
AlphaValues == {alpha_list[0], alpha_list[1]}
BetaValues == {beta_list[0], beta_list[1]}
Names == [prefix : Prefixes, alpha : AlphaValues, beta : BetaValues]

\* The first row of metrics/unsupervised_score.csv.
Scores == [trust_AUC : 1..MaxAUC, cont_AUC : 1..MaxAUC,
           lcmc_AUC : 1..MaxAUC, aggregate_AUC : 1..MaxAUC]

\* The score file of a folder: an array of its first row, empty when the
\* folder has no readable metrics/unsupervised_score.csv.
NoCsv == <<>>

\* What an entry is: a plain file (a heatmap saved by an earlier run of the
\* script), or the folder of a run with or without its score file.
Contents ==
  {[isdir |-> FALSE, csv |-> NoCsv]} \cup
  {[isdir |-> TRUE, csv |-> c] : c \in {<<row>> : row \in Scores} \cup {NoCsv}}

\* os.listdir(path_to_run) without the dot files: entries of distinct names.
Listings ==
  UNION {[S -> Contents] : S \in {T \in SUBSET Names : Cardinality(T) <= MaxFolders}}

\* lines 21-32: the listing and the four empty grids
heatmap_init ==
  /\ all_model_folder \in Listings
  /\ todo = DOMAIN all_model_folder
  /\ model_i = Unset
  /\ trust_hm = zeros /\ cont_hm = zeros
  /\ lcmc_hm = zeros /\ aggregate_hm = zeros
  /\ ind_max = <<>>
  /\ hm_raised = "none"
  /\ hm_pc = "folders"

\* One iteration of the loop of lines 35-53, on the next entry in the
\* order of os.listdir, which is any order.
aggregate_folder ==
  /\ hm_pc = "folders"
  /\ \E name \in todo :
       LET entry == all_model_folder[name]
           col == where(alpha_list, name.alpha)
           row == where(beta_list, name.beta)
       IN  /\ model_i' = name
           /\ todo' = todo \ {name}
           /\ IF ~entry.isdir
                THEN UNCHANGED <<trust_hm, cont_hm, lcmc_hm, aggregate_hm,
                                 hm_raised, hm_pc>>
                ELSE IF entry.csv = NoCsv
                THEN /\ hm_raised' = "FileNotFoundError"
                     /\ hm_pc' = "raised"
                     /\ UNCHANGED <<trust_hm, cont_hm, lcmc_hm, aggregate_hm>>
                ELSE /\ trust_hm' = assigned(trust_hm, row, col, entry.csv[1].trust_AUC)
                     /\ cont_hm' = assigned(cont_hm, row, col, entry.csv[1].cont_AUC)
                     /\ lcmc_hm' = assigned(lcmc_hm, row, col, entry.csv[1].lcmc_AUC)
                     /\ aggregate_hm' = assigned(aggregate_hm, row, col, entry.csv[1].aggregate_AUC)
                     /\ UNCHANGED <<hm_raised, hm_pc>>
  /\ UNCHANGED <<all_model_folder, ind_max>>
  /\ UNCHANGED <<lq_vars, es_vars, cr_vars>>

\* list_map of line 56
list_map == <<trust_hm, cont_hm, lcmc_hm, aggregate_hm>>

\* One iteration of the loop of lines 59-83, which starts when the loop
\* over the entries is through: the best cell of the next map.
report_map ==
  /\ hm_pc = "maps" \/ (hm_pc = "folders" /\ todo = {})
  /\ Len(ind_max) < Len(list_map)
  /\ ind_max' = Append(ind_max, unravel_index(argmax(list_map[Len(ind_max) + 1])))
  /\ hm_pc' = "maps"
  /\ UNCHANGED <<all_model_folder, todo, model_i, trust_hm, cont_hm, lcmc_hm,
                 aggregate_hm, hm_raised>>
  /\ UNCHANGED <<lq_vars, es_vars, cr_vars>>

InitHeatmap == heatmap_init /\ NoCall /\ NoStopper /\ NoCoRanking

NextHeatmap == aggregate_folder \/ report_map

SpecHeatmap == InitHeatmap /\ [][NextHeatmap]_vars

----------------------------------------------------------------------------
\* The co-ranking matrix of r_LCMC.compute_coranking, imported by
\* score_optimization.py.  The module r_LCMC is not part of the sources;
\* the matrix is modelled from its definition in the specification: Q[k,l]
\* counts the ordered pairs (i,j), i # j, whose high-dim rank is k+1 and
\* whose low-dim rank is l+1.

\* Largest number N of samples of the two enumerated rank matrices.
MaxRankN == 5

\* Row i of a rank matrix of k samples: a permutation of 0..k-1 that gives
\* rank 0 to the sample itself.
RankRowTable ==
  {<<x[1], x[2], {p \in IndexPerms(x[1]) : p[x[2]] = 0}>> :
     x \in {y \in (2..MaxRankN) \X Idx(MaxRankN) : y[2] < y[1]}}

RankRows(k, i) == (CHOOSE t \in RankRowTable : t[1] = k /\ t[2] = i)[3]

\* Q counts pairs of ranks, not columns: relabelling the columns j # i of
\* row i in both rank matrices leaves Q as it is.  The high-dim row is
\* therefore enumerated up to that relabelling, with its ranks in column
\* order, and the low-dim row in full.
HighRankRow(k, i) == [j \in Idx(k) |-> IF j < i THEN j + 1 ELSE IF j = i THEN 0 ELSE j]

\* A faulty count: the self-pair (i,i) of rank 0 is not dropped and lands,
\* by its index -1, in the last cell.
counted_with_self(q, i, rho, r) ==
  [k \in DOMAIN q |-> [l \in DOMAIN q |->
     q[k][l] + Cardinality({j \in DOMAIN rho :
                              /\ (rho[j] - 1) % Size(q) = k
                              /\ (r[j] - 1) % Size(q) = l})]]

\* Q after the pairs (i,j), j # i, of row i are counted.
counted(q, i, rho, r) ==
  [k \in DOMAIN q |-> [l \in DOMAIN q |->
     q[k][l] + Cardinality({j \in DOMAIN rho :
                              j # i /\ rho[j] = k + 1 /\ r[j] = l + 1})]]

\* Two rank matrices of N samples arrive; Q is (N-1) x (N-1) and empty.
coranking_init ==
  /\ cr_N \in 2..MaxRankN
  /\ cr_i = 0
  /\ Q = [k \in Idx(cr_N - 1) |-> [l \in Idx(cr_N - 1) |-> 0]]

\* The pairs of one row of the two rank matrices are counted.
compute_coranking_row ==
  /\ cr_i < cr_N
  /\ \E r \in RankRows(cr_N, cr_i) :
       Q' = counted(Q, cr_i, HighRankRow(cr_N, cr_i), r)
  /\ cr_i' = cr_i + 1
  /\ UNCHANGED cr_N
  /\ UNCHANGED <<lq_vars, es_vars, hm_vars>>

InitCoRanking == coranking_init /\ NoCall /\ NoStopper /\ NoGrids

NextCoRanking == compute_coranking_row

SpecCoRanking == InitCoRanking /\ [][NextCoRanking]_vars

----------------------------------------------------------------------------
\* Vocabulary of the properties

\* The call has run its rank-matrix statements (lines 80-88).
Ranked == pc # "call"

\* The call returned a score vector.
Returned == pc = "returned"

\* Both point clouds have the same number of rows.
SameRows == Size(high_data) = Size(low_data)

\* A call the documentation intends: two clouds of N >= 2 rows and both
\* parameters in 1..N-1.
WellFormedCall ==
  /\ SameRows /\ Size(high_data) >= 2
  /\ ks \in 1..(Size(high_data) - 1)
  /\ kt \in 1..(Size(high_data) - 1)

\* No two rows of either point cloud are the same point.
DistinctPoints ==
  /\ \A a, b \in DOMAIN high_data : a # b => high_data[a] # high_data[b]
  /\ \A a, b \in DOMAIN low_data : a # b => low_data[a] # low_data[b]

\* The row holds every integer 0..N-1 exactly once.
IsPermutationRow(row) ==
  \A v \in Idx(Size(row)) : Cardinality({j \in DOMAIN row : row[j] = v}) = 1

\* The row has two columns at the same distance.
HasTie(row) == \E a, b \in DOMAIN row : a # b /\ row[a] = row[b]

\* Ties of the row are ranked in index order.
TiesInIndexOrder(dist, rank) ==
  \A a, b \in DOMAIN dist : (a < b /\ dist[a] = dist[b]) => rank[a] < rank[b]

\* The pair (i,j) is scale-eligible, in terms of its two ranks.
Eligible(i, j) == high_ranking[i][j] <= ks \/ low_ranking[i][j] <= ks

\* The pair (i,j) is a success, in terms of its two ranks.
Success(i, j) ==
  \/ (high_ranking[i][j] >= low_ranking[i][j] /\ high_ranking[i][j] - low_ranking[i][j] <= kt)
  \/ (high_ranking[i][j] < low_ranking[i][j] /\ low_ranking[i][j] - high_ranking[i][j] <= kt)

\* Number of eligible successful pairs in row i, and in column i.
RowCount(i, cols) == Cardinality({j \in cols : Eligible(i, j) /\ Success(i, j)})
ColCount(i, rws) == Cardinality({j \in rws : Eligible(j, i) /\ Success(j, i)})

----------------------------------------------------------------------------
\* C1: every row of the high-dim and of the low-dim rank matrix holds each
\* integer 0..N-1 exactly once, also when distances of the row are equal.
C1_RankRowsArePermutations ==
  Ranked =>
    /\ \A i \in DOMAIN high_ranking : IsPermutationRow(high_ranking[i])
    /\ \A i \in DOMAIN low_ranking : IsPermutationRow(low_ranking[i])

\* A rank matrix of three points was built from a row with equal distances.
C1_Witness ==
  /\ Ranked
  /\ Size(high_data) = 3
  /\ \E i \in DOMAIN high_distance : HasTie(high_distance[i])
  /\ \A i \in DOMAIN high_ranking : IsPermutationRow(high_ranking[i])

\* C2: the diagonal entry (i,i) of both rank matrices is 0 for every point
\* and every input, duplicate points included.
C2_DiagonalRankZero ==
  (Ranked /\ WellFormedCall) =>
    /\ \A i \in DOMAIN high_ranking : high_ranking[i][i] = 0
    /\ \A i \in DOMAIN low_ranking : low_ranking[i][i] = 0

\* C3: of two columns j1 < j2 at equal distance from i, j1 gets the lower
\* rank, in both rank matrices.
C3_TiesInIndexOrder ==
  (Ranked /\ WellFormedCall /\ DistinctPoints) =>
    /\ \A i \in DOMAIN high_ranking : TiesInIndexOrder(high_distance[i], high_ranking[i])
    /\ \A i \in DOMAIN low_ranking : TiesInIndexOrder(low_distance[i], low_ranking[i])

C6_ScoreIsRowPlusColumnCount ==
  Returned =>
    /\ DOMAIN local_quality_score = DOMAIN high_data
    /\ \A i \in DOMAIN local_quality_score :
         local_quality_score[i][2] = 2 * ks * Size(high_data)
    /\ SameRows =>
         \A i \in DOMAIN local_quality_score :
           local_quality_score[i][1] =
             RowCount(i, DOMAIN high_data) + ColCount(i, DOMAIN high_data)

\* A score vector was returned in which the row count and the column count
\* of a point differ.
C6_Witness ==
  /\ Returned /\ SameRows /\ Size(high_data) = 3
  /\ \E i \in DOMAIN high_data :
       /\ RowCount(i, DOMAIN high_data) # ColCount(i, DOMAIN high_data)
       /\ local_quality_score[i][1] =
            RowCount(i, DOMAIN high_data) + ColCount(i, DOMAIN high_data)

\* C7: the call returns no score vector when ks <= 0, ks >= N, kt <= 0 or
\* kt >= N.
C7_ParametersOutOfRangeRejected ==
  (SameRows /\ Size(high_data) >= 2 /\
     (ks <= 0 \/ ks >= Size(high_data) \/ kt <= 0 \/ kt >= Size(high_data)))
    => ~Returned

\* C8: score[i] counts only pairs with j # i, in its row and in its column.
C8_SelfPairExcluded ==
  (Returned /\ WellFormedCall /\ DistinctPoints) =>
    \A i \in DOMAIN local_quality_score :
      local_quality_score[i][1] =
        RowCount(i, DOMAIN high_data \ {i}) + ColCount(i, DOMAIN high_data \ {i})

\* C9: the call returns no result when the two point clouds differ in their
\* number of rows or the input has fewer than 2 rows.
C9_ShapeMismatchRejected ==
  (ks >= 1 /\ kt >= 1 /\ (~SameRows \/ Size(high_data) < 2)) => ~Returned

\* The scenario of C10 has returned.
SixPointsReturned ==
  Returned /\ high_data = EvenSix /\ low_data = EvenSix /\ ks = 3 /\ kt = 1

\* C10 as stated: for high = low = six evenly spaced points, ks = 3 and
\* kt = 1, all six points get the same score.
C10_UniformScore ==
  SixPointsReturned =>
    \A i, j \in Idx(6) : local_quality_score[i] = local_quality_score[j]

\* C10 as amended: in that scenario every point has ks+1 = 4 eligible
\* successful pairs in its row, but the scores are not uniform: the two
\* middle points score 10/36 and each of the other four between 6/36 and
\* 8/36.
C10_SixPointScores ==
  SixPointsReturned =>
    /\ \A i \in Idx(6) : RowCount(i, Idx(6)) = 4
    /\ \A i \in Idx(6) : local_quality_score[i][2] = 36
    /\ local_quality_score[2][1] = 10 /\ local_quality_score[3][1] = 10
    /\ \A i \in {0, 1, 4, 5} :
         local_quality_score[i][1] >= 6 /\ local_quality_score[i][1] <= 8

\* The scenario has returned with the scores an index-ordered argsort
\* gives: 7, 8, 10, 10, 7, 6 over 36.
C10_Witness ==
  /\ SixPointsReturned
  /\ [i \in Idx(6) |-> local_quality_score[i][1]] =
       (0 :> 7 @@ 1 :> 8 @@ 2 :> 10 @@ 3 :> 10 @@ 4 :> 7 @@ 5 :> 6)

----------------------------------------------------------------------------
\* The second call has ended and had the arguments of the first call.
SameArgumentsAgain ==
  /\ pc = "again"
  /\ second.high_data = high_data /\ second.low_data = low_data
  /\ second.kt = kt /\ second.ks = ks

\* The second call has ended and had the two point clouds in the other order.
SwappedAgain ==
  /\ pc = "again"
  /\ second.high_data = low_data /\ second.low_data = high_data
  /\ second.kt = kt /\ second.ks = ks

C19_Symmetric ==
  (SwappedAgain /\ ks >= 1) =>
    /\ second.raised = raised
    /\ second.local_quality_score = local_quality_score

\* C20: for N >= 2 rows, 1 <= ks < N and kt >= 0 every returned score lies
\* in [0, 1]: its numerator, the row count plus the column count of the
\* eligible successful pairs of the point, is between 0 and 2*ks*N.
C20_ScoresInUnitInterval ==
  (Returned /\ n >= 2 /\ ks >= 1 /\ ks < n /\ kt >= 0) =>
    \A i \in DOMAIN local_quality_score :
      /\ local_quality_score[i][2] = 2 * ks * n
      /\ 0 <= local_quality_score[i][1]
      /\ local_quality_score[i][1] <= local_quality_score[i][2]
      /\ SameRows =>
           RowCount(i, DOMAIN high_ranking) + ColCount(i, DOMAIN high_ranking)
             <= 2 * ks * n

\* A returned call on MaxN points with ks = 1 in which a point reaches the
\* score 1 exactly.
C20_Witness ==
  /\ Returned /\ SameRows /\ n = MaxN /\ ks = 1 /\ kt >= 0
  /\ \E i \in DOMAIN local_quality_score :
       local_quality_score[i][1] = local_quality_score[i][2]

----------------------------------------------------------------------------
\* Vocabulary of the grid aggregation

\* The loop over the entries of path_to_run ran to its end.
Aggregated == hm_raised = "none" /\ todo = {}

\* The entry is the folder of a run that has its score file.
ScoredRun(name) ==
  all_model_folder[name].isdir /\ all_model_folder[name].csv # NoCsv

\* The positions of the hyperparameters of a run in the two lists.
AlphaIndex(name) == CHOOSE i \in DOMAIN alpha_list : alpha_list[i] = name.alpha
BetaIndex(name) == CHOOSE i \in DOMAIN beta_list : beta_list[i] = name.beta

\* The four AUC values of a run, in the order of list_map.
AUCs(name) ==
  LET row == all_model_folder[name].csv[1]
  IN  <<row.trust_AUC, row.cont_AUC, row.lcmc_AUC, row.aggregate_AUC>>

\* The loop has just been through the folder of a run with a score file.
RunWritten ==
  /\ hm_raised = "none"
  /\ todo # DOMAIN all_model_folder
  /\ ScoredRun(model_i)

\* C12: the aggregation completes for every set of run folders: no entry
\* ends the script with an exception, and when the loop is through the
\* cell of a pair without a scored run is 0 in all four grids while the
\* cell of every scored run is populated.
C12_CompletesWithMissingRuns ==
  /\ hm_raised = "none"
  /\ Aggregated =>
       \A a, b \in Idx(GridSide) : \A g \in 1..Len(list_map) :
         IF \E name \in DOMAIN all_model_folder :
              ScoredRun(name) /\ AlphaIndex(name) = a /\ BetaIndex(name) = b
         THEN list_map[g][b][a] > 0
         ELSE list_map[g][b][a] = 0

\* C13: the final four grids are the same for every order of the entries:
\* when the loop is through, every scored run finds its own four values in
\* the cell it wrote, so no other entry wrote that cell after it.
C13_OrderIndependent ==
  Aggregated =>
    \A name \in DOMAIN all_model_folder :
      ScoredRun(name) =>
        \A g \in 1..Len(list_map) :
          list_map[g][BetaIndex(name)][AlphaIndex(name)] = AUCs(name)[g]

\* C14 as stated: the value of a run with hyperparameters (alpha, beta) is
\* stored with the position of alpha in alpha_list as first index and the
\* position of beta in beta_list as second index.
C14_AlphaIndexFirst ==
  RunWritten =>
    \A g \in 1..Len(list_map) :
      list_map[g][AlphaIndex(model_i)][BetaIndex(model_i)] = AUCs(model_i)[g]

\* C14, amended: the value of a run with hyperparameters (alpha, beta) is
\* stored with the position of beta in beta_list as first index (the row)
\* and the position of alpha in alpha_list as second index (the column).
C14_BetaIndexFirst ==
  RunWritten =>
    \A g \in 1..Len(list_map) :
      list_map[g][BetaIndex(model_i)][AlphaIndex(model_i)] = AUCs(model_i)[g]

\* A run whose alpha and beta have different positions has been written.
C14_Witness ==
  /\ RunWritten
  /\ AlphaIndex(model_i) # BetaIndex(model_i)
  /\ trust_hm[BetaIndex(model_i)][AlphaIndex(model_i)] > 0
  /\ trust_hm[AlphaIndex(model_i)][BetaIndex(model_i)] = 0

\* C15: the best cell reported for a map holds a value greater than or
\* equal to every cell of the map, and its flat index row*6+col is the
\* first maximal one in row-major order: every cell before it is smaller.
C15_FirstMaximalCell ==
  hm_pc = "maps" =>
    \A g \in 1..Len(ind_max) :
      LET row == ind_max[g][1]
          col == ind_max[g][2]
      IN  /\ row \in Idx(GridSide) /\ col \in Idx(GridSide)
          /\ \A r, c \in Idx(GridSide) : list_map[g][r][c] <= list_map[g][row][col]
          /\ \A r, c \in Idx(GridSide) :
               r * GridSide + c < row * GridSide + col
                 => list_map[g][r][c] < list_map[g][row][col]

\* All four maps are reported, one of them has its maximum in two cells
\* and another one is all zero or has a single best cell off the origin.
C15_Witness ==
  /\ hm_pc = "maps" /\ Len(ind_max) = Len(list_map)
  /\ \E r, c \in Idx(GridSide) :
       /\ <<r, c>> # ind_max[1]
       /\ trust_hm[r][c] = trust_hm[ind_max[1][1]][ind_max[1][2]]
       /\ trust_hm[r][c] > 0
  /\ ind_max[2] # <<0, 0>>

----------------------------------------------------------------------------
\* Sum of all cells of a square matrix.
Total(mat) == SumOver(sum_axis1(mat), DOMAIN mat)

\* C16: the co-ranking matrix of two N x N rank matrices has the shape
\* (N-1) x (N-1), counts N-1 ordered pairs (i,j), j # i, for every row i
\* counted so far, and sums to N(N-1) when all rows are counted.
C16_CoRankingShapeAndSum ==
  /\ DOMAIN Q = Idx(cr_N - 1)
  /\ \A k \in DOMAIN Q : DOMAIN Q[k] = Idx(cr_N - 1)
  /\ Total(Q) = cr_i * (cr_N - 1)
  /\ cr_i = cr_N => Total(Q) = cr_N * (cr_N - 1)

\* The co-ranking matrix of N = 5 samples is complete: 4 x 4, sum 20, with
\* pairs counted off its diagonal.
C16_Witness ==
  /\ cr_N = 5 /\ cr_i = cr_N
  /\ Size(Q) = 4 /\ Total(Q) = 20
  /\ \E k, l \in DOMAIN Q : k # l /\ Q[k][l] > 0

----------------------------------------------------------------------------
\* Vocabulary of EarlyStopping: the calls so far, told from the losses

\* The best score after call k: the score of the last call up to k that
\* was the first call or did not fail to improve.
RECURSIVE BestAfter(_)
BestAfter(k) ==
  IF k = 1 THEN -val_losses[1]
  ELSE IF -val_losses[k] < BestAfter(k - 1) + delta THEN BestAfter(k - 1)
  ELSE -val_losses[k]

\* The calls in a row, up to call k, that failed to improve.
RECURSIVE FailsInRow(_)
FailsInRow(k) ==
  IF k <= 1 THEN 0
  ELSE IF -val_losses[k] < BestAfter(k - 1) + delta THEN FailsInRow(k - 1) + 1
  ELSE 0

\* The smallest loss of a non-empty array of losses.
MinLoss(losses) ==
  CHOOSE v \in 0..MaxLoss :
    (\E k \in DOMAIN losses : losses[k] = v) /\ (\A k \in DOMAIN losses : v <= losses[k])

\* C17: early_stop is True exactly from the first call on at which
\* `patience` calls in a row have failed to improve (score < best_score +
\* delta), never before; the counter is the number of calls in a row that
\* failed, 0 after an improving call.
C17_StopsAtPatience ==
  /\ early_stop = (\E k \in 1..Len(val_losses) : FailsInRow(k) >= patience)
  /\ counter = FailsInRow(Len(val_losses))

\* early_stop was set at the last call, the first one at which MaxPatience
\* calls in a row had failed, after an improving call had reset the counter.
C17_Witness ==
  /\ early_stop /\ patience = MaxPatience
  /\ Len(val_losses) = MaxCalls
  /\ counter = patience
  /\ \A k \in 1..(MaxCalls - 1) : FailsInRow(k) < patience
  /\ \E k \in 2..(MaxCalls - 1) : FailsInRow(k - 1) > 0 /\ FailsInRow(k) = 0

\* C18: with the default delta = 0, a call saves the model (save_model
\* records the epoch of the call and its loss) exactly when it is the
\* first call or its loss is below the smallest loss of the calls before.
C18_SavesExactlyOnDecrease ==
  [][(delta = 0 /\ val_losses' # val_losses) =>
       LET val_loss == val_losses'[Len(val_losses')]
           saves == /\ stop_epoch' = Len(val_losses')
                    /\ checkpoint' = Len(val_losses')
                    /\ val_loss_min' = val_loss
           skips == UNCHANGED <<stop_epoch, checkpoint, val_loss_min>>
       IN  IF val_losses = <<>> \/ val_loss < MinLoss(val_losses)
           THEN saves ELSE skips]_vars

\* C22: early_stop is latched: no call turns it from True to False, an
\* improving call that sets the counter to 0 and saves the model included;
\* and after every call val_loss_min equals -best_score.
C22_LatchedAndMinIsBest ==
  /\ [][early_stop => early_stop']_vars
  /\ [](Len(val_losses) >= 1 =>
          /\ best_score # None
          /\ val_loss_min = -best_score[1])

\* early_stop was set by an earlier call and the last call improved: it
\* set the counter to 0 and saved the model, and early_stop is still True.
C22_Witness ==
  /\ early_stop
  /\ counter = 0
  /\ stop_epoch = Len(val_losses)
  /\ checkpoint = Len(val_losses)
  /\ val_loss_min = val_losses[Len(val_losses)]
  /\ \E k \in 1..(Len(val_losses) - 1) : FailsInRow(k) >= patience

----------------------------------------------------------------------------
\* The cells of a grid that hold a value other than the initial 0.
Populated(hm) ==
  {cell \in Idx(GridSide) \X Idx(GridSide) : hm[cell[1]][cell[2]] # 0}

\* C23: an iteration on the folder of a run with a score file writes the
\* four AUC values of the run into the same (row, col) cell of the four
\* grids and leaves every other cell of every grid as it was; at all
\* times, and so after the aggregation, the same cells are populated in
\* the four grids.
C23_OneCellOfEachGrid ==
  /\ [][(todo' # todo /\ hm_raised' = "none" /\ ScoredRun(model_i')) =>
          \A g \in 1..Len(list_map) : \A r, c \in Idx(GridSide) :
            list_map'[g][r][c] =
              IF r = BetaIndex(model_i') /\ c = AlphaIndex(model_i')
              THEN AUCs(model_i')[g]
              ELSE list_map[g][r][c]]_vars
  /\ [](\A g \in 1..Len(list_map) : Populated(list_map[g]) = Populated(trust_hm))

\* The aggregation is through, the last iteration wrote a run with four
\* different AUC values into a cell of its own, and the cell of an earlier
\* run is still populated in the four grids.
C23_Witness ==
  /\ Aggregated /\ RunWritten
  /\ Cardinality(Populated(trust_hm)) = 2
  /\ Populated(aggregate_hm) = Populated(trust_hm)
  /\ AUCs(model_i)[1] # AUCs(model_i)[2]
  /\ aggregate_hm[BetaIndex(model_i)][AlphaIndex(model_i)] = AUCs(model_i)[4]

----------------------------------------------------------------------------
\* The second call has ended and had the same point clouds and the same ks.
SameCloudsAgain ==
  /\ pc = "again"
  /\ second.high_data = high_data /\ second.low_data = low_data
  /\ second.ks = ks

\* The score a / b is at most the score c / d (b and d not 0).
AtMost(a, b, c, d) == a * b * d * d <= c * d * b * b

\* C21: for fixed point clouds and fixed ks, the two calls with kt and kt'
\* end the same way, and when they return and kt <= kt' the score of every
\* point at kt is at most its score at kt'.
C21_MonotoneInKt ==
  SameCloudsAgain =>
    /\ second.raised = raised
    /\ (raised = "none" /\ kt <= second.kt) =>
         \A i \in DOMAIN local_quality_score :
           AtMost(local_quality_score[i][1], local_quality_score[i][2],
                  second.local_quality_score[i][1], second.local_quality_score[i][2])
    /\ (raised = "none" /\ second.kt <= kt) =>
         \A i \in DOMAIN local_quality_score :
           AtMost(second.local_quality_score[i][1], second.local_quality_score[i][2],
                  local_quality_score[i][1], local_quality_score[i][2])

\* Both calls returned on MaxN points, kt < kt', and the score of a point
\* is strictly higher at kt'.
C21_Witness ==
  /\ SameCloudsAgain /\ SameRows /\ Size(high_data) = MaxN
  /\ raised = "none" /\ second.raised = "none"
  /\ ks >= 1 /\ kt < second.kt
  /\ \E i \in DOMAIN local_quality_score :
       local_quality_score[i][1] < second.local_quality_score[i][1]

====
